---- MODULE Spec2Model ----
(***************************************************************************)
(* Model of pystac.item_collection.ItemCollection.                         *)
(*                                                                         *)
(* Python objects live on heaps and are named by their index (identity):   *)
(*   heap   the pystac.Item instances,                                     *)
(*   dicts  the mutable dictionaries (extra_fields mappings and the        *)
(*          dictionaries nested in them),                                  *)
(*   colls  the ItemCollection instances.                                  *)
(* A dictionary is the ordered sequence of its <<key, value>> entries      *)
(* (insertion order).  Objects are never freed; an object that the code    *)
(* creates and immediately drops (the inner copy made by clone()) is not   *)
(* given a heap slot.  last and made record the calls, muts counts the     *)
(* caller's mutations.                                                     *)
(***************************************************************************)
EXTENDS Integers, Sequences, FiniteSets, TLC

\* ---------------------------------------------------------------- bounds
MaxItems == 5        \* Item objects on the heap
MaxColls == 3        \* ItemCollection objects
MaxBuilt == 1        \* constructor calls, where every argument is tried
MaxMutations == 1    \* caller mutations of a field / an entry

\* ------------------------------------------------------- JSON-like values
\* A value held in a dictionary: a string, a reference to a nested
\* dictionary, or a list of item dictionaries.
Str(s) == [kind |-> "str", s |-> s, ref |-> 0, list |-> <<>>]
DictRef(r) == [kind |-> "dict", s |-> "", ref |-> r, list |-> <<>>]
List(l) == [kind |-> "list", s |-> "", ref |-> 0, list |-> l]

\* ------------------------------------------------ dictionaries (ordered)
Keys(d) == {d[i][1] : i \in 1..Len(d)}

HasKey(d, k) == k \in Keys(d)

Get(d, k) == d[CHOOSE i \in 1..Len(d) : d[i][1] = k][2]

\* d[k] = v : an existing key keeps its position, a new key goes last
Put(d, k, v) ==
    IF HasKey(d, k)
    THEN [i \in 1..Len(d) |-> IF d[i][1] = k THEN <<k, v>> ELSE d[i]]
    ELSE Append(d, <<k, v>>)

\* {**d, **e}
RECURSIVE Merge(_, _)
Merge(d, e) ==
    IF e = <<>> THEN d
    ELSE Merge(Put(d, Head(e)[1], Head(e)[2]), Tail(e))

\* the mapping a dictionary denotes (Python's == on dicts ignores order)
AsMap(d) == {<<d[i][1], d[i][2]>> : i \in 1..Len(d)}

\* ----------------------------------------------------- pystac.Item (model)
\* Item.to_dict()
ItemToDict(it) == [type |-> "Feature", id |-> it.id, properties |-> it.properties]

\* Item.from_dict(d): a fresh Item carrying the dictionary's fields
ItemFromDict(d) == [id |-> d.id, properties |-> d.properties]

\* Item.clone(): a deep copy
ItemClone(it) == [id |-> it.id, properties |-> it.properties]

\* ---------------------------------------------------------------- inputs
\* The caller holds three Items and three dictionaries before any call.
ItemIds == <<"x", "y", "z">>
PropVals == {"p0", "p1"}
RawItem == [type |-> "Feature", id |-> "d", properties |-> "p0"]
CallerItems == [i \in 1..Len(ItemIds) |-> [id |-> ItemIds[i], properties |-> "p0"]]

MetaDict == 2       \* {"meta": {"k": "v0"}}, the nested dictionary is object 1
LicenseDict == 3    \* {"license": "CC-BY"}
TypeDict == 4       \* {"type": "Feature"}
CallerDicts ==
    << << <<"k", Str("v0")>> >>,
       << <<"meta", DictRef(1)>> >>,
       << <<"license", Str("CC-BY")>> >>,
       << <<"type", Str("Feature")>> >> >>

\* an element of the constructor's iterable: an Item or a raw dictionary
AsItem(r) == [kind |-> "item", ref |-> r, d |-> RawItem]
AsDict(d) == [kind |-> "dict", ref |-> 0, d |-> d]

\* -------------------------------------------------------- ItemCollection
\* map_item with every Item kept as it is
MapItemKeep(e, clone_items, h) ==
    IF e.kind = "item"
    THEN [ref |-> e.ref, heap |-> h]
    ELSE [ref |-> Len(h) + 1, heap |-> Append(h, ItemFromDict(e.d))]

\* map_item: an Item is cloned when clone_items, else kept; a dictionary is
\* parsed.  h is the Item heap; the result names the stored Item.
MapItem(e, clone_items, h) ==
    IF e.kind = "item"
    THEN IF clone_items
         THEN [ref |-> Len(h) + 1, heap |-> Append(h, ItemClone(h[e.ref]))]
         ELSE [ref |-> e.ref, heap |-> h]
    ELSE [ref |-> Len(h) + 1, heap |-> Append(h, ItemFromDict(e.d))]

\* list(map(map_item, items)), in order
RECURSIVE MapItems(_, _, _, _)
MapItems(inp, clone_items, h, acc) ==
    IF inp = <<>> THEN [items |-> acc, heap |-> h]
    ELSE LET m == MapItem(Head(inp), clone_items, h)
         IN MapItems(Tail(inp), clone_items, m.heap, Append(acc, m.ref))

\* extra_fields or {} : None (0) and the empty dictionary are falsy
ExtraFieldsOrEmpty(ds, ef) ==
    IF ef = 0 \/ ds[ef] = <<>>
    THEN [dicts |-> Append(ds, <<>>), ref |-> Len(ds) + 1]
    ELSE [dicts |-> ds, ref |-> ef]

\* ItemCollection.__init__
InitColl(h, ds, inp, ef, clone_items) ==
    LET m == MapItems(inp, clone_items, h, <<>>)
        x == ExtraFieldsOrEmpty(ds, ef)
    IN [heap |-> m.heap, dicts |-> x.dicts,
        coll |-> [items |-> m.items, extra_fields |-> x.ref]]

\* x in list : Items define no __eq__, so == is identity
ListContains(l, x) == \E i \in 1..Len(l) : l[i] = x

\* the loop of __add__ without its membership test
CombineNoDedup(l, combined) == combined \o l

\* the loop of __add__ over self.items + other.items
RECURSIVE Combine(_, _)
Combine(l, combined) ==
    IF l = <<>> THEN combined
    ELSE IF ~ListContains(combined, Head(l))
         THEN Combine(Tail(l), Append(combined, Head(l)))
         ELSE Combine(Tail(l), combined)

\* __add__ handing on the left operand's extra_fields
AddExtraFieldsSelf(self, other) == self.extra_fields

\* the extra_fields argument __add__ passes to the constructor (none)
AddExtraFields(self, other) == 0

\* ItemCollection.to_dict, with h and ds the heaps
ToDictIn(h, ds, c) ==
    Merge(<< <<"type", Str("FeatureCollection")>>,
             <<"features", List([i \in 1..Len(c.items) |-> ItemToDict(h[c.items[i]])])>> >>,
          ds[c.extra_fields])

\* copy.deepcopy of dictionary r: nested dictionaries are copied too
RECURSIVE DeepCopy(_, _)
RECURSIVE CopyEntries(_, _, _)
CopyEntries(ds, es, acc) ==
    IF es = <<>> THEN [dicts |-> ds, entries |-> acc]
    ELSE LET e == Head(es) IN
         IF e[2].kind = "dict"
         THEN LET n == DeepCopy(ds, e[2].ref)
              IN CopyEntries(n.dicts, Tail(es), Append(acc, <<e[1], DictRef(n.ref)>>))
         ELSE CopyEntries(ds, Tail(es), Append(acc, e))
DeepCopy(ds, r) ==
    LET c == CopyEntries(ds, ds[r], <<>>)
    IN [dicts |-> Append(c.dicts, c.entries), ref |-> Len(c.dicts) + 1]

\* identify_stac_object_type
Identify(d) ==
    IF ~HasKey(d, "type") THEN "None"
    ELSE IF Get(d, "type") = Str("FeatureCollection") THEN "ITEMCOLLECTION"
    ELSE IF Get(d, "type") = Str("Feature") THEN "ITEM"
    ELSE "None"

\* a check that accepts any typed document
IsItemCollectionLoose(d) == HasKey(d, "type")

\* the check that opens from_dict
IsItemCollection(d) == Identify(d) = "ITEMCOLLECTION"

\* d.get("features", [])
Features(d) == IF HasKey(d, "features") THEN Get(d, "features") ELSE List(<<>>)

\* the comprehension with "type" let through
ExtraOfKeepType(d) == SelectSeq(d, LAMBDA e : e[1] # "features")

\* {k: v for k, v in d.items() if k not in ("features", "type")}
ExtraOf(d) == SelectSeq(d, LAMBDA e : e[1] \notin {"features", "type"})

VARIABLES heap, dicts, colls, last, made, muts

vars == <<heap, dicts, colls, last, made, muts>>

ItemRefs == 1..Len(heap)
DictRefs == 1..Len(dicts)
CollRefs == 1..Len(colls)

\* what the last call was, its arguments and its outcome; h0 is the number
\* of Items that existed when it was made
Call(op, err, res, a, b, inp, clone, d) ==
    [op |-> op, err |-> err, res |-> res, a |-> a, b |-> b, inp |-> inp,
     clone |-> clone, d |-> d, h0 |-> Len(heap)]

\* how a collection was made: the call, its operands and its arguments
Made(op, a, b, inp, clone) == [op |-> op, a |-> a, b |-> b, inp |-> inp, clone |-> clone]

Init ==
    /\ heap = CallerItems
    /\ dicts = CallerDicts
    /\ colls = <<>>
    /\ last = [op |-> "none", err |-> "", res |-> 0, a |-> 0, b |-> 0,
               inp |-> <<>>, clone |-> FALSE, d |-> <<>>, h0 |-> 0]
    /\ made = <<>>
    /\ muts = 0

\* membership by the records' values
ContainsByValue(c, x) == \E i \in 1..Len(c.items) : heap[c.items[i]] = heap[x]

\* ItemCollection.__contains__
Contains(c, x) == ListContains(c.items, x)

\* the iterables and extra_fields a caller passes to the constructor
Iterables ==
    { <<>>, <<AsItem(1)>>, <<AsItem(1), AsItem(2)>>, <<AsItem(2), AsItem(3)>>,
      <<AsItem(1), AsItem(1)>>, <<AsItem(1), AsDict(RawItem)>>, <<AsDict(RawItem)>> }
ExtraFieldsArgs == {0, MetaDict, LicenseDict, TypeDict}

\* how many Items the constructor creates for an iterable
Created(inp, clone_items) ==
    Cardinality({i \in 1..Len(inp) : inp[i].kind = "dict" \/ clone_items})

\* ItemCollection(items, extra_fields, clone_items)
Construct(inp, ef, clone_items) ==
    /\ Len(colls) < MaxColls
    /\ Len(heap) + Created(inp, clone_items) <= MaxItems
    /\ LET n == InitColl(heap, dicts, inp, ef, clone_items) IN
         /\ heap' = n.heap
         /\ dicts' = n.dicts
         /\ colls' = Append(colls, n.coll)
    /\ made' = Append(made, Made("init", 0, 0, inp, clone_items))
    /\ last' = Call("init", "", Len(colls) + 1, ef, 0, inp, clone_items, <<>>)
    /\ UNCHANGED muts

\* self + other, other an ItemCollection or not (other = 0)
Add(self, other) ==
    IF other = 0
    THEN /\ last' = Call("add", "NotImplemented", 0, self, other, <<>>, FALSE, <<>>)
         /\ UNCHANGED <<heap, dicts, colls, made, muts>>
    ELSE /\ Len(colls) < MaxColls
         /\ LET combined == Combine(colls[self].items \o colls[other].items, <<>>)
                n == InitColl(heap, dicts, [i \in 1..Len(combined) |-> AsItem(combined[i])],
                              AddExtraFields(colls[self], colls[other]), FALSE)
            IN /\ heap' = n.heap
               /\ dicts' = n.dicts
               /\ colls' = Append(colls, n.coll)
         /\ made' = Append(made, Made("add", self, other, <<>>, FALSE))
         /\ last' = Call("add", "", Len(colls) + 1, self, other, <<>>, FALSE, <<>>)
         /\ UNCHANGED muts

\* self.clone().  The list comprehension clones every Item, the constructor
\* (clone_items defaults to True) clones the clones; the inner clones and a
\* deep-copied empty extra_fields are dropped at once and leave the heaps.
CloneItems(h, its) ==
    LET k == Len(its)
        tmp == h \o [i \in 1..k |-> ItemClone(h[its[i]])]
        m == MapItems([i \in 1..k |-> AsItem(Len(h) + i)], TRUE, tmp, <<>>)
    IN [heap |-> h \o SubSeq(m.heap, Len(h) + k + 1, Len(m.heap)),
        items |-> [i \in 1..k |-> m.items[i] - k]]

\* clone() handing on self.extra_fields uncopied
CloneExtraFieldsShared(ds, ef) == [dicts |-> ds, ref |-> ef]

\* the extra_fields argument clone() passes to the constructor
CloneExtraFields(ds, ef) ==
    IF ds[ef] = <<>> THEN [dicts |-> ds, ref |-> 0] ELSE DeepCopy(ds, ef)

Clone(self) ==
    /\ Len(colls) < MaxColls
    /\ Len(heap) + Len(colls[self].items) <= MaxItems
    /\ LET ci == CloneItems(heap, colls[self].items)
           ce == CloneExtraFields(dicts, colls[self].extra_fields)
           n == InitColl(ci.heap, ce.dicts, [i \in 1..Len(ci.items) |-> AsItem(ci.items[i])],
                         ce.ref, FALSE)
       IN /\ heap' = n.heap
          /\ dicts' = n.dicts
          /\ colls' = Append(colls, n.coll)
    /\ made' = Append(made, Made("clone", self, 0, <<>>, FALSE))
    /\ last' = Call("clone", "", Len(colls) + 1, self, 0, <<>>, FALSE, <<>>)
    /\ UNCHANGED muts

\* self.to_dict()
ToDict(c) == ToDictIn(heap, dicts, colls[c])

\* the dictionaries a caller parses
InputDicts ==
    { << <<"type", Str("Feature")>> >>,
      << <<"type", Str("FeatureCollection")>> >>,
      << <<"license", Str("CC-BY")>> >>,
      << <<"type", Str("FeatureCollection")>>, <<"features", List(<<RawItem>>)>>,
         <<"license", Str("CC-BY")>> >> }

\* the outcome of ItemCollection.from_dict(d) in the current state
FromDictResult(d) ==
    IF ~IsItemCollection(d) THEN [err |-> "STACTypeError"]
    ELSE IF Features(d).kind # "list" THEN [err |-> "ItemError"]
    ELSE LET fs == Features(d).list
             extra_fields == ExtraOf(d)
             items == MapItems([i \in 1..Len(fs) |-> AsDict(fs[i])], FALSE, heap, <<>>)
             ds == IF extra_fields = <<>> THEN dicts ELSE Append(dicts, extra_fields)
             ef == IF extra_fields = <<>> THEN 0 ELSE Len(dicts) + 1
             n == InitColl(items.heap, ds,
                           [i \in 1..Len(fs) |-> AsItem(items.items[i])], ef, FALSE)
         IN [err |-> "", heap |-> n.heap, dicts |-> n.dicts, coll |-> n.coll]

FromDictCall(op, d, src) ==
    LET r == FromDictResult(d) IN
    IF r.err # ""
    THEN /\ last' = Call(op, r.err, 0, src, 0, <<>>, FALSE, d)
         /\ UNCHANGED <<heap, dicts, colls, made, muts>>
    ELSE /\ Len(colls) < MaxColls
         /\ Len(r.heap) <= MaxItems
         /\ heap' = r.heap
         /\ dicts' = r.dicts
         /\ colls' = Append(colls, r.coll)
         /\ made' = Append(made, Made(op, src, 0, <<>>, FALSE))
         /\ last' = Call(op, "", Len(colls) + 1, src, 0, <<>>, FALSE, d)
         /\ UNCHANGED muts

\* ItemCollection.from_dict(d), d a literal
FromDict(d) == FromDictCall("from_dict", d, 0)

\* ItemCollection.from_dict(c.to_dict())
RoundTrip(c) == FromDictCall("from_dict", ToDict(c), c)

\* the documents the storage holds, by path
Paths == {"fc.json", "item.json", "missing.json"}
Hrefs == [abs : BOOLEAN, path : Paths]
ReadJson(href) ==
    CASE href.path = "fc.json" ->
           << <<"type", Str("FeatureCollection")>>, <<"features", List(<<RawItem>>)>> >>
      [] href.path = "item.json" -> << <<"type", Str("Feature")>>, <<"id", Str("d")>> >>
      [] OTHER -> <<>>
Exists(href) == href.path # "missing.json"
IsAbsoluteHref(href) == href.abs
MakeAbsoluteHref(href) == [href EXCEPT !.abs = TRUE]

\* ItemCollection.from_file(href)
FromFile(href) ==
    LET h == IF ~IsAbsoluteHref(href) THEN MakeAbsoluteHref(href) ELSE href IN
    IF ~Exists(h)
    THEN /\ last' = Call("from_file", "IOError", 0, 0, 0, <<>>, FALSE, <<>>)
         /\ UNCHANGED <<heap, dicts, colls, made, muts>>
    ELSE FromDictCall("from_file", ReadJson(h), 0)

\* the caller sets a field of an Item it can reach
MutateItem(r, v) ==
    /\ muts < MaxMutations
    /\ heap[r].properties # v
    /\ heap' = [heap EXCEPT ![r].properties = v]
    /\ muts' = muts + 1
    /\ last' = Call("mutate_item", "", 0, r, 0, <<>>, FALSE, <<>>)
    /\ UNCHANGED <<dicts, colls, made>>

\* the caller sets an entry of a dictionary it can reach
MutateDict(r, i) ==
    /\ muts < MaxMutations
    /\ dicts[r][i][2] # Str("v1")
    /\ dicts' = [dicts EXCEPT ![r][i] = <<dicts[r][i][1], Str("v1")>>]
    /\ muts' = muts + 1
    /\ last' = Call("mutate_dict", "", 0, r, 0, <<>>, FALSE, <<>>)
    /\ UNCHANGED <<heap, colls, made>>

\* at most MaxBuilt constructor calls, with arguments from the given sets
Build(efs, flags) ==
    /\ Len(colls) < MaxBuilt
    /\ \E inp \in Iterables, ef \in efs, clone_items \in flags :
          Construct(inp, ef, clone_items)

Mutate ==
    \/ \E r \in ItemRefs, v \in PropVals : MutateItem(r, v)
    \/ \E r \in DictRefs : \E i \in 1..Len(dicts[r]) : MutateDict(r, i)

\* construction with every argument, membership, the caller's mutations
Next == Build(ExtraFieldsArgs, BOOLEAN) \/ Mutate

Spec == Init /\ [][Next]_vars

\* combination of collections that hold the caller's own Items
NextAdd ==
    \/ \E inp \in Iterables, ef \in {0, LicenseDict} : Construct(inp, ef, FALSE)
    \/ \E self \in CollRefs, other \in {0} \cup CollRefs : Add(self, other)

SpecAdd == Init /\ [][NextAdd]_vars

\* cloning, and mutation of either side afterwards
NextClone ==
    \/ Build({0, MetaDict, LicenseDict}, {FALSE})
    \/ \E self \in CollRefs : Clone(self)
    \/ Mutate

SpecClone == Init /\ [][NextClone]_vars

\* parsing of dictionaries and files, and of serialized collections
NextParse ==
    \/ Build(ExtraFieldsArgs, {FALSE})
    \/ \E d \in InputDicts : FromDict(d)
    \/ \E c \in CollRefs : RoundTrip(c)
    \/ \E href \in Hrefs : FromFile(href)

SpecParse == Init /\ [][NextParse]_vars

\* ------------------------------------------------------------ properties
Reserved == {"type", "features"}
ExtraFields(c) == dicts[colls[c].extra_fields]
ItemsOf(c) == {colls[c].items[i] : i \in 1..Len(colls[c].items)}

\* the dictionaries a dictionary reaches, itself included
RECURSIVE Reach(_, _)
Reach(ds, r) ==
    {r} \cup UNION {Reach(ds, ds[r][i][2].ref) :
                       i \in {j \in 1..Len(ds[r]) : ds[r][j][2].kind = "dict"}}

\* the value of a dictionary with nested references resolved
RECURSIVE Deep(_, _)
Deep(ds, d) ==
    {<<d[i][1], [kind |-> d[i][2].kind, s |-> d[i][2].s, list |-> d[i][2].list,
                 obj |-> IF d[i][2].kind = "dict" THEN Deep(ds, ds[d[i][2].ref]) ELSE {}]>> :
        i \in 1..Len(d)}

\* the observable content of a collection
View(h, ds, c) ==
    [items |-> [i \in 1..Len(c.items) |-> h[c.items[i]]],
     extra_fields |-> Deep(ds, ds[c.extra_fields])]

\* C1: the extra_fields of every ItemCollection, however it was produced,
\* holds neither the key "type" nor the key "features".
NoReservedKeys ==
    \A c \in CollRefs : Keys(ExtraFields(c)) \cap Reserved = {}

\* C2: to_dict() begins with "type": "FeatureCollection" and "features": the
\* items' dictionaries in stored order; the entries of extra_fields follow
\* them and replace neither.
ToDictReserved ==
    \A c \in CollRefs :
        LET d == ToDict(c) IN
        /\ d[1] = <<"type", Str("FeatureCollection")>>
        /\ d[2] = <<"features",
                    List([i \in 1..Len(colls[c].items) |-> ItemToDict(heap[colls[c].items[i]])])>>
        /\ SubSeq(d, 3, Len(d)) = ExtraFields(c)

\* C3: from_dict(c.to_dict()) succeeds and serializes to a dictionary equal
\* to c.to_dict().
RoundTripEqual ==
    (last.op = "from_dict" /\ last.a # 0) =>
        /\ last.err = ""
        /\ Deep(dicts, ToDict(last.res)) = Deep(dicts, ToDict(last.a))

\* the Items of the iterable a collection was constructed from
GivenItems(c) == {made[c].inp[i].ref : i \in {j \in 1..Len(made[c].inp) : made[c].inp[j].kind = "item"}}

\* the id an element of the iterable carries
GivenId(e) == IF e.kind = "item" THEN heap[e.ref].id ELSE e.d.id

IsMutation(l) == l.op \in {"mutate_item", "mutate_dict"}

\* the collections constructed with clone_items=True
ClonedColls == {c \in CollRefs : made[c].op = "init" /\ made[c].clone}

\* every cloned collection holds the iterable's records, in order, and none
\* of the Items it was given
StoredAreClones ==
    \A c \in ClonedColls :
        LET its == colls[c].items
            inp == made[c].inp
        IN /\ Len(its) = Len(inp)
           /\ \A i \in 1..Len(its) : heap[its[i]].id = GivenId(inp[i])
           /\ \A i \in 1..Len(its) : its[i] \notin GivenItems(c)

\* a step that mutates a given Item leaves the stored Items alone, and one
\* that mutates a stored Item leaves the given Items alone
MutationStaysOnItsSide ==
    \A c \in ClonedColls :
        /\ last'.a \in GivenItems(c) => \A r \in ItemsOf(c) : heap'[r] = heap[r]
        /\ last'.a \in ItemsOf(c) => \A r \in GivenItems(c) : heap'[r] = heap[r]

\* C5: a collection constructed with clone_items=True holds as many Items as
\* the iterable, with the iterable's ids in its order, none of them one of the
\* Items given; a later mutation of a given Item leaves the stored Items as
\* they were, and a mutation of a stored Item leaves the given Items as they
\* were.
ClonedOnConstruction ==
    [][ /\ StoredAreClones'
        /\ last'.op = "mutate_item" => MutationStaysOnItsSide ]_vars

\* C5 happens: a collection cloned from an Item and a raw dictionary, and the
\* given Item mutated afterwards
ClonedThenMutated ==
    \E c \in CollRefs :
        /\ made[c].op = "init" /\ made[c].clone
        /\ made[c].inp = <<AsItem(1), AsDict(RawItem)>>
        /\ last.op = "mutate_item" /\ last.a = 1
        /\ heap[1] # heap[colls[c].items[1]]

\* C10: a collection constructed with clone_items=False from Items holds
\* those very Items and reports each as a member; constructed with
\* clone_items=True it reports none of them as a member, though it holds a
\* record equal to each.
MembershipByIdentity ==
    \A c \in CollRefs :
        made[c].op = "init" =>
            \A i \in 1..Len(made[c].inp) :
                made[c].inp[i].kind = "item" =>
                    LET x == made[c].inp[i].ref IN
                    IF made[c].clone
                    THEN ~Contains(colls[c], x)
                    ELSE Contains(colls[c], x) /\ colls[c].items[i] = x

\* C10 happens: [x] constructed with clone_items=True holds a record equal
\* to x that is not x
CloneIsNotMember ==
    \E c \in CollRefs :
        /\ made[c].op = "init" /\ made[c].clone /\ made[c].inp = <<AsItem(1)>>
        /\ heap[colls[c].items[1]] = heap[1]
        /\ ~Contains(colls[c], 1)

\* the clones, each with the collection it was cloned from
Clones == {c \in CollRefs : made[c].op = "clone"}

\* a clone and its source hold no object in common
CloneShares(c) ==
    \/ ItemsOf(c) \cap ItemsOf(made[c].a) # {}
    \/ Reach(dicts, colls[c].extra_fields) \cap Reach(dicts, colls[made[c].a].extra_fields) # {}

\* what clone() returned: as many Items, equal one by one, and equal
\* extra_fields
CloneEqualsSource ==
    last.op = "clone" =>
        View(heap, dicts, colls[last.res]) = View(heap, dicts, colls[last.a])

\* a step that mutates an object of a clone leaves the source as it was, and
\* one that mutates an object of the source leaves the clone as it was
CloneSidesApart ==
    \A c \in Clones :
        LET src == made[c].a
            mine == IF last'.op = "mutate_item" THEN ItemsOf(c)
                    ELSE Reach(dicts, colls[c].extra_fields)
            theirs == IF last'.op = "mutate_item" THEN ItemsOf(src)
                      ELSE Reach(dicts, colls[src].extra_fields)
        IN /\ last'.a \in mine =>
                View(heap', dicts', colls[src]) = View(heap, dicts, colls[src])
           /\ last'.a \in theirs =>
                View(heap', dicts', colls[c]) = View(heap, dicts, colls[c])

\* C4: c2 = c1.clone() has c1's Items in c1's order and equal extra_fields,
\* shares no Item and no dictionary (at any depth) with c1, and from then on
\* a mutation on either side leaves the other side unchanged.
CloneIndependence ==
    [][ /\ CloneEqualsSource'
        /\ \A c \in Clones : ~CloneShares(c)
        /\ IsMutation(last') => CloneSidesApart ]_vars

\* C4 happens: a collection with Items and a nested extra_fields entry was
\* cloned, and the nested dictionary of the clone mutated afterwards
CloneThenMutated ==
    \E c \in Clones :
        /\ colls[c].items # <<>>
        /\ last.op = "mutate_dict"
        /\ last.a \in Reach(dicts, colls[c].extra_fields) \ {colls[c].extra_fields}
        /\ View(heap, dicts, colls[c]) # View(heap, dicts, colls[made[c].a])

\* the collections made by A + B
Sums == {c \in CollRefs : made[c].op = "add"}

\* the position at which x first occurs in l
First(l, x) == CHOOSE i \in 1..Len(l) : l[i] = x /\ \A j \in 1..(i - 1) : l[j] # x

\* C6: the Items of A + B are the Items occurring in A.items followed by
\* B.items, the very same objects, each exactly once, in the order of their
\* first occurrence; [x, y] + [y, z] is [x, y, z].
UnionDedup ==
    \A c \in Sums :
        LET cat == colls[made[c].a].items \o colls[made[c].b].items
            r == colls[c].items
        IN /\ {r[i] : i \in 1..Len(r)} = {cat[i] : i \in 1..Len(cat)}
           /\ \A i, j \in 1..Len(r) : r[i] = r[j] => i = j
           /\ \A i, j \in 1..Len(r) : i < j => First(cat, r[i]) < First(cat, r[j])
           /\ (colls[made[c].a].items = <<1, 2>> /\ colls[made[c].b].items = <<2, 3>>)
                 => r = <<1, 2, 3>>

\* C6 happens: A = [x, y] and B = [y, z] share y, and A + B was made
SharedItemSum ==
    \E c \in Sums :
        /\ colls[made[c].a].items = <<1, 2>>
        /\ colls[made[c].b].items = <<2, 3>>
        /\ Len(colls[c].items) = 3

\* C7: A + B has empty extra_fields whatever A's and B's hold, and making it
\* changes neither operand, nor any Item or dictionary that existed.
AddDropsExtraFields ==
    [][ (last'.op = "add" /\ last'.err = "") =>
          /\ dicts'[colls'[last'.res].extra_fields] = <<>>
          /\ colls'[last'.a] = colls[last'.a]
          /\ colls'[last'.b] = colls[last'.b]
          /\ heap' = heap
          /\ \A r \in DictRefs : dicts'[r] = dicts[r] ]_vars

\* C7 happens: the sum of two collections that both hold extra fields
SumOfExtraFields ==
    /\ last.op = "add" /\ last.err = ""
    /\ ExtraFields(last.a) # <<>>
    /\ ExtraFields(last.b) # <<>>
    /\ last.a # last.b

\* C8: the extra_fields from_dict builds are d's entries other than "type"
\* and "features", with d's values; the Items are the parses of d's
\* "features" in order, none when d has no "features".
ParsedFields ==
    (last.op = "from_dict" /\ last.err = "") =>
        LET d == last.d
            c == colls[last.res]
            fs == IF HasKey(d, "features") THEN Get(d, "features").list ELSE <<>>
        IN /\ AsMap(dicts[c.extra_fields]) = {e \in AsMap(d) : e[1] \notin Reserved}
           /\ Len(c.items) = Len(fs)
           /\ \A i \in 1..Len(fs) : ItemToDict(heap[c.items[i]]) = fs[i]
           /\ \A i \in 1..Len(fs) : c.items[i] > last.h0

\* C8 happens: type, features and license: "CC-BY" were parsed
ParsedLicense ==
    /\ last.op = "from_dict" /\ last.err = ""
    /\ Keys(last.d) = {"type", "features", "license"}
    /\ dicts[colls[last.res].extra_fields] = << <<"license", Str("CC-BY")>> >>
    /\ Len(colls[last.res].items) = 1

\* C9: from_dict on a dictionary not identified as an ItemCollection raises
\* STACTypeError, parses no feature and makes no collection; from_file raises
\* the same error for such a document.
WrongTypeRejected ==
    [][ (/\ last'.op \in {"from_dict", "from_file"}
         /\ last'.err # "IOError"
         /\ Identify(last'.d) # "ITEMCOLLECTION") =>
          /\ last'.err = "STACTypeError"
          /\ last'.res = 0
          /\ heap' = heap /\ dicts' = dicts /\ colls' = colls ]_vars

\* C9 happens: {"type": "Feature"} was rejected
FeatureRejected ==
    /\ last.op = "from_dict"
    /\ last.d = << <<"type", Str("Feature")>> >>
    /\ last.err = "STACTypeError"

====
